---------------------------- MODULE Spec2Model ----------------------------
(***************************************************************************)
(* AdaLead (src/boda/generator/AdaLead.py): the evolutionary search loop   *)
(* run / propose_sequences with its query accounting, parent selection,    *)
(* recombination, mutation rollouts and top-K proposal.                    *)
(*                                                                         *)
(* Sequences are tuples of symbols.  Scores are integers (the injected     *)
(* fitness_fn is one of two deterministic functions), probabilities and    *)
(* the threshold are in hundredths.  The random module is modelled by the  *)
(* set of outcomes it can produce.                                         *)
(***************************************************************************)
EXTENDS Integers, Sequences, FiniteSets, TLC

VARIABLES
    \* configuration, set by __init__ and the arguments of run
    measured_sequences, sequences_batch_size, model_queries_per_batch,
    mu, recomb_rate, threshold, rho, eval_batch_size, fitness_fn,
    num_iterations,
    \* attributes and control state of run
    model_cost, pc, error, iteration, new_seqs, preds,
    \* locals of propose_sequences
    initial_sequences, parents, sequences, previous_model_cost,
    rho_i, i, roots, root_fitnesses, nodes, child_idxs, children,
    \* history: total size of the batches passed to get_fitness, number of
    \* propose_sequences calls made by run, list returned by the last call
    passed, calls, returned,
    \* one function called on its own: its arguments and what it returned
    args, ret

config == <<measured_sequences, sequences_batch_size, model_queries_per_batch,
            mu, recomb_rate, threshold, rho, eval_batch_size, fitness_fn,
            num_iterations>>

locals == <<initial_sequences, parents, sequences, previous_model_cost,
            rho_i, i, roots, root_fitnesses, nodes, child_idxs, children>>

unit == <<args, ret>>

vars == <<config, model_cost, pc, error, iteration, new_seqs, preds, locals,
          passed, calls, returned, unit>>

----------------------------------------------------------------------------
\* Bounds of the model.
MaxIterations == 2
MaxQueries == 7
MaxBatch == 3
MaxEvalBatch == 2
MaxPopulation == 2

\* seq_len and vocab of the instance under study.
seq_len == 2
vocab == <<"A", "B">>

Range(f) == {f[x] : x \in DOMAIN f}

\* Every sequence of length seq_len over the vocabulary.
Seqs == [1..seq_len -> Range(vocab)]

\* Lists of length n over S.
Lists(S, n) == [1..n -> S]

\* random.random() lies in [0, 1): these values, in hundredths, stand for it.
Random == {0, 50, 99}

\* An entry of np.zeros: what np.resize fills with when given an empty array.
ZeroFloat == <<"0.0">>


----------------------------------------------------------------------------
\* The injected scorer: one deterministic score per sequence.
\*   "countA": the number of 'A' in the sequence (scores >= 0)
\*   "minusB": minus the number of 'B' (scores <= 0, a negative landscape)
FitnessFns == {"countA", "minusB"}

Count(s, c) == Cardinality({k \in DOMAIN s : s[k] = c})

Fitness(fn, s) == IF fn = "countA" THEN Count(s, "A") ELSE 0 - Count(s, "B")

\* get_fitness charging only for the batches the scorer answered
ChargedCostAfterScorer(cost, sequence_list, scorer_ok) ==
    IF scorer_ok THEN cost + Len(sequence_list) ELSE cost

\* get_fitness, line 136: the cost after the call, whatever the scorer does.
ChargedCost(cost, sequence_list, scorer_ok) == cost + Len(sequence_list)

\* get_fitness, lines 137-139: "none" when the call returns, else the error.
\* torch.stack refuses an empty list, the encoder refuses a non-string, and
\* the scorer itself may raise.
GetFitnessError(sequence_list, scorer_ok) ==
    IF Len(sequence_list) = 0 THEN "RuntimeError"
    ELSE IF \E k \in DOMAIN sequence_list : sequence_list[k] = ZeroFloat
         THEN "TypeError"
    ELSE IF ~scorer_ok THEN "ScorerRaised"
    ELSE "none"

\* get_fitness, line 140: squeeze() drops every axis of size 1, so the scores
\* of a batch of one come back as a 0-dimensional array.
Squeeze(fs) == [ndim |-> IF Len(fs) = 1 THEN 0 ELSE 1, data |-> fs]

GetFitness(sequence_list) ==
    Squeeze([k \in DOMAIN sequence_list |-> Fitness(fitness_fn, sequence_list[k])])

\* get_fitness(...).reshape(-1).tolist(), line 300
ReshapeToList(arr) == arr.data

Max(S) == CHOOSE x \in S : \A y \in S : y <= x

Sign(x) == IF x > 0 THEN 1 ELSE IF x < 0 THEN 0 - 1 ELSE 0

\* lines 255-258: np.argwhere of a 0-dimensional array has no columns, so
\* reshape(-1) leaves no index at all.
TopInds(measured_fitnesses) ==
    IF measured_fitnesses.ndim = 0 THEN << >>
    ELSE LET fs == measured_fitnesses.data
             top_fitness == Max(Range(fs))
             Sel(k) == fs[k] * 100 >= top_fitness * (100 - Sign(top_fitness) * threshold)
         IN SelectSeq([k \in 1..Len(fs) |-> k], Sel)

\* np.resize(a, n) for n >= 0, line 262: repeats a cyclically up to n entries
\* (cuts it when it is longer); an empty a gives n zeros.
Resize(a, n) ==
    IF Len(a) = 0 THEN [k \in 1..n |-> ZeroFloat]
    ELSE [k \in 1..n |-> a[((k - 1) % Len(a)) + 1]]

\* lines 251-262: the parents of a round
SelectParents(population) ==
    LET top_inds == TopInds(GetFitness(population))
    IN Resize([k \in DOMAIN top_inds |-> population[top_inds[k]]],
              sequences_batch_size)

----------------------------------------------------------------------------
\* random.shuffle(gen), line 221: every ordering of gen
Shuffles(gen) ==
    LET n == Len(gen)
        Bij == {p \in [1..n -> 1..n] : \A a, b \in 1..n : p[a] = p[b] => a = b}
    IN {[k \in 1..n |-> gen[p[k]]] : p \in Bij}

\* line 228: the outcomes of `random.random() < self.recomb_rate`
Flips == {r < recomb_rate : r \in Random}

\* a switch set to the outcome of the draw at each position, not toggled by it
SwitchSetByDraw(n) == {sw \in [1..n -> BOOLEAN] : \A ind \in 1..n : sw[ind] \in Flips}

\* lines 226-229: the values the switch can take along a pair of length n; it
\* starts False and is toggled at a position when the draw is below recomb_rate
SwitchPatterns(n) ==
    {sw \in [1..n -> BOOLEAN] :
        \A ind \in 1..n :
            (sw[ind] # (IF ind = 1 THEN FALSE ELSE sw[ind - 1])) \in Flips}

\* a second recombinant reading the same parent as the first at each position
StrBSameParent(a, b, sw) == [ind \in 1..Len(a) |-> IF sw[ind] THEN a[ind] ELSE b[ind]]

\* the first recombinant starting from the first parent of the pair
StrAFromFirst(a, b, sw) == [ind \in 1..Len(a) |-> IF sw[ind] THEN b[ind] ELSE a[ind]]

\* lines 231-236: the two recombinants of the pair (a, b) under a switch pattern
StrA(a, b, sw) == [ind \in 1..Len(a) |-> IF sw[ind] THEN a[ind] ELSE b[ind]]
StrB(a, b, sw) == [ind \in 1..Len(a) |-> IF sw[ind] THEN b[ind] ELSE a[ind]]

\* lines 222-239: ret for the shuffled list g and one switch pattern per pair;
\* range(0, len(gen) - 1, 2) visits the pairs (0,1), (2,3), ...
Recombinants(g, sws) ==
    [k \in 1..(2 * (Len(g) \div 2)) |->
        LET pr == (k + 1) \div 2
            a == g[2 * pr - 1]
            b == g[2 * pr]
        IN IF k % 2 = 1 THEN StrA(a, b, sws[pr]) ELSE StrB(a, b, sws[pr])]

\* recombine_population raises when it takes len() of an np.zeros entry
RecombineRaises(gen) ==
    Len(gen) >= 2 /\ \E k \in DOMAIN gen : gen[k] = ZeroFloat

\* recombine_population, lines 208-239: every list it can return
recombine_population(gen) ==
    IF Len(gen) = 1 THEN {gen}
    ELSE {Recombinants(g, sws) :
            g \in Shuffles(gen),
            sws \in [1..(Len(gen) \div 2) ->
                       SwitchPatterns(IF Len(gen) = 0 THEN 0 ELSE Len(gen[1]))]}

\* a mutant drawn when the draw is at or below the rate, not strictly below
MutantAtOrBelowRate(sequence, alphabet) ==
    LET n == Len(sequence)
        Mutates == {r * n <= mu * 100 : r \in Random}
    IN {m \in [1..n -> Range(alphabet) \cup Range(sequence)] :
          \A k \in 1..n : \/ TRUE \in Mutates /\ m[k] \in Range(alphabet)
                          \/ FALSE \in Mutates /\ m[k] = sequence[k]}

\* generate_random_mutant, lines 200-206: every mutant it can return for the
\* per-symbol rate mu / len(sequence) passed at line 287
generate_random_mutant(sequence, alphabet) ==
    LET n == Len(sequence)
        Mutates == {r * n < mu * 100 : r \in Random}
    IN {m \in [1..n -> Range(alphabet) \cup Range(sequence)] :
          \A k \in 1..n : \/ TRUE \in Mutates /\ m[k] \in Range(alphabet)
                          \/ FALSE \in Mutates /\ m[k] = sequence[k]}

\* line 292: the child has been seen, in the population or among the discovered
Seen(child, measured_sequence_set, discovered) ==
    \/ child \in measured_sequence_set
    \/ \E k \in DOMAIN discovered : discovered[k][1] = child

\* a list of pairs in place of the dict: a known key is stored again
DictPutAppend(d, key, val) == Append(d, <<key, val>>)

\* dict item assignment: a known key keeps its place and takes the new value
DictPut(d, key, val) ==
    IF \E j \in DOMAIN d : d[j][1] = key
    THEN [j \in DOMAIN d |-> IF d[j][1] = key THEN <<key, val>> ELSE d[j]]
    ELSE Append(d, <<key, val>>)

\* sequences.update(zip(children, fitnesses)), line 301
RECURSIVE DictUpdate(_, _, _)
DictUpdate(d, keys, vals) ==
    IF keys = << >> THEN d
    ELSE DictUpdate(DictPut(d, Head(keys), Head(vals)), Tail(keys), Tail(vals))

\* children kept when they score at least as much as their root
SurvivorsNotWorse(idxs, kids, fitnesses, rootfs) ==
    LET Better(k) == fitnesses[k] >= rootfs.data[idxs[k]]
        kept == SelectSeq([k \in 1..Len(kids) |-> k], Better)
    IN [k \in DOMAIN kept |-> <<idxs[kept[k]], kids[kept[k]]>>]

\* lines 303-306: the children that go on, each with the index of its root
Survivors(idxs, kids, fitnesses, rootfs) ==
    LET Better(k) == fitnesses[k] > rootfs.data[idxs[k]]
        kept == SelectSeq([k \in 1..Len(kids) |-> k], Better)
    IN [k \in DOMAIN kept |-> <<idxs[kept[k]], kids[kept[k]]>>]

\* np.argsort(preds), line 316: positions in ascending order of score, equal
\* scores in their order of insertion
ArgSort(ps) ==
    LET Rank(k) == Cardinality({j \in DOMAIN ps :
                        ps[j] < ps[k] \/ (ps[j] = ps[k] /\ j < k)}) + 1
    IN [r \in DOMAIN ps |-> CHOOSE k \in DOMAIN ps : Rank(k) = r]

\* the slice [: k - 1]: the head of the ascending order, not its tail reversed
SliceHead(a, k) ==
    LET len == IF k - 1 < 0 THEN 0 ELSE IF k - 1 > Len(a) THEN Len(a) ELSE k - 1
    IN SubSeq(a, 1, len)

\* the slice [: -(k - 1) : -1]: one entry fewer than [: -k : -1], for k >= 2
SliceTopShort(a, k) ==
    LET n == Len(a)
        stop == IF n - (k - 1) < 0 THEN 0 - 1 ELSE n - (k - 1)
        len == IF k < 2 \/ n - 1 - stop < 0 THEN 0 ELSE n - 1 - stop
    IN [j \in 1..len |-> a[n - j + 1]]

\* the slice [: 0 : -1] whenever the list is shorter than k: its first entry,
\* the lowest score, is left out
SliceTopDropsLowest(a, k) ==
    LET n == Len(a)
        stop == IF k > 0 THEN (IF n - k < 0 THEN 0 ELSE n - k)
                ELSE (IF 0 - k > n - 1 THEN n - 1 ELSE 0 - k)
        len == IF n - 1 - stop > 0 THEN n - 1 - stop ELSE 0
    IN [j \in 1..len |-> a[n - j + 1]]

\* the slice [: -k : -1] of a list of length n, line 316: from the last entry
\* backwards, stopping before position n - k (a stop before the list's start
\* is its start; for k <= 0 the stop -k counts from the start)
SliceTop(a, k) ==
    LET n == Len(a)
        stop == IF k > 0 THEN (IF n - k < 0 THEN 0 - 1 ELSE n - k)
                ELSE (IF 0 - k > n - 1 THEN n - 1 ELSE 0 - k)
        len == IF n - 1 - stop > 0 THEN n - 1 - stop ELSE 0
    IN [j \in 1..len |-> a[n - j + 1]]

\* lines 314-317: the positions in the dict of the sequences proposed
sorted_order(d) == SliceTop(ArgSort([k \in DOMAIN d |-> d[k][2]]), sequences_batch_size)

----------------------------------------------------------------------------
\* The configurations explored: __init__'s arguments, lines 66-112.
Populations == UNION {Lists(Seqs, n) : n \in 0..MaxPopulation}

\* the scorer with the threshold (in hundredths) it is run with
Profiles == {<<"countA", 0>>, <<"countA", 50>>, <<"minusB", 50>>}

\* no function is called on its own during run
NoArgs == [fn |-> "none", seqs |-> << >>, scores |-> << >>, alphabet |-> << >>, size |-> 0]

Init ==
    /\ measured_sequences \in {{}} \cup {{p} : p \in Populations}
    /\ sequences_batch_size \in (0 - 1)..MaxBatch
    /\ model_queries_per_batch \in 0..MaxQueries
    /\ eval_batch_size \in 1..MaxEvalBatch
    /\ mu \in {0, 1}
    /\ rho \in {0, 1}
    /\ recomb_rate \in IF rho = 0 THEN {0} ELSE {0, 50, 100}
    /\ \E pr \in Profiles : fitness_fn = pr[1] /\ threshold = pr[2]
    /\ num_iterations \in 0..MaxIterations
    /\ model_cost = 0
    /\ pc = "start"
    /\ error = "none"
    /\ iteration = 0
    /\ new_seqs = << >>
    /\ preds = << >>
    /\ initial_sequences = << >>
    /\ parents = << >>
    /\ sequences = << >>
    /\ previous_model_cost = 0
    /\ rho_i = 0
    /\ i = 0
    /\ roots = << >>
    /\ root_fitnesses = Squeeze(<< >>)
    /\ nodes = << >>
    /\ child_idxs = << >>
    /\ children = << >>
    /\ passed = 0
    /\ calls = 0
    /\ returned = << >>
    /\ args = NoArgs
    /\ ret = << >>

\* an exception leaves propose_sequences and run
Raise(err) == pc' = "failed" /\ error' = err

\* the locals of the rollout over one chunk, lines 273-306
chunk_locals == <<roots, root_fitnesses, nodes, child_idxs, children>>

ResetChunk ==
    /\ roots' = << >>
    /\ root_fitnesses' = Squeeze(<< >>)
    /\ nodes' = << >>
    /\ child_idxs' = << >>
    /\ children' = << >>

\* run, lines 330-336: the population of round 0
start_from_random_sequences(num_sequences) ==
    Lists(Seqs, IF num_sequences > 0 THEN num_sequences ELSE 0)

RunStart ==
    /\ pc = "start"
    /\ new_seqs' \in IF measured_sequences = {}
                     THEN start_from_random_sequences(sequences_batch_size)
                     ELSE measured_sequences
    /\ pc' = "loop"
    /\ UNCHANGED <<config, unit, model_cost, error, iteration, preds, locals,
                   passed, calls, returned>>

\* a loop that stops one round early
LoopStopsEarly == iteration + 1 < num_iterations

\* run, line 338: range(num_iterations) has another iteration
LoopContinues == iteration < num_iterations

\* run, lines 338-339: one more round, on the sequences run holds
RunIteration ==
    /\ pc = "loop"
    /\ LoopContinues
    /\ initial_sequences' = new_seqs
    /\ calls' = calls + 1
    /\ pc' = "propose"
    /\ UNCHANGED <<config, unit, model_cost, error, iteration, new_seqs, preds,
                   parents, sequences, previous_model_cost, rho_i, i,
                   chunk_locals, passed, returned>>

\* run, lines 342-343: preds is unbound when the loop never ran
RunFinish ==
    /\ pc = "loop"
    /\ ~LoopContinues
    /\ IF num_iterations <= 0
       THEN Raise("UnboundLocalError")
       ELSE pc' = "done" /\ error' = error
    /\ UNCHANGED <<config, unit, model_cost, iteration, new_seqs, preds, locals,
                   passed, calls, returned>>

\* the reference point taken on entry, before the seed population is scored
ReferenceAtEntry(cost_on_entry, cost_after_seed) == cost_on_entry

\* line 265: previous_model_cost is read after the seed evaluation of line 252
ReferencePoint(cost_on_entry, cost_after_seed) == cost_after_seed

\* propose_sequences, lines 251-265: the seed evaluation and the parents;
\* np.resize raises on a negative size
ProposeSeed ==
    /\ pc = "propose"
    /\ \E scorer_ok \in BOOLEAN :
        LET err == GetFitnessError(initial_sequences, scorer_ok)
        IN /\ model_cost' = ChargedCost(model_cost, initial_sequences, scorer_ok)
           /\ passed' = passed + Len(initial_sequences)
           /\ IF err # "none"
              THEN /\ Raise(err)
                   /\ UNCHANGED <<parents, sequences, previous_model_cost>>
              ELSE IF sequences_batch_size < 0
              THEN /\ Raise("ValueError")
                   /\ UNCHANGED <<parents, sequences, previous_model_cost>>
              ELSE /\ parents' = SelectParents(initial_sequences)
                   /\ sequences' = << >>
                   /\ previous_model_cost' = ReferencePoint(model_cost, model_cost')
                   /\ pc' = "outer"
                   /\ error' = error
    /\ UNCHANGED <<config, unit, iteration, new_seqs, preds, initial_sequences,
                   rho_i, i, chunk_locals, calls, returned>>

\* line 266: the test of the outer loop
OuterLoop ==
    /\ pc = "outer"
    /\ IF model_cost - previous_model_cost < model_queries_per_batch
       THEN pc' = "recombine"
       ELSE pc' = "select"
    /\ rho_i' = 0
    /\ UNCHANGED <<config, unit, model_cost, error, iteration, new_seqs, preds,
                   initial_sequences, parents, sequences, previous_model_cost,
                   i, chunk_locals, passed, calls, returned>>

\* lines 268-269: one pass of recombine_population, or the end of the passes
Recombine ==
    /\ pc = "recombine"
    /\ IF rho_i < rho
       THEN IF RecombineRaises(parents)
            THEN Raise("TypeError") /\ UNCHANGED <<parents, rho_i, i>>
            ELSE /\ parents' \in recombine_population(parents)
                 /\ rho_i' = rho_i + 1
                 /\ UNCHANGED <<pc, error, i>>
       ELSE /\ pc' = "chunk"
            /\ i' = 0
            /\ rho_i' = 0
            /\ UNCHANGED <<error, parents>>
    /\ UNCHANGED <<config, unit, model_cost, iteration, new_seqs, preds,
                   initial_sequences, sequences, previous_model_cost,
                   chunk_locals, passed, calls, returned>>

Min(a, b) == IF a < b THEN a ELSE b

\* lines 271-276: the next chunk of parents is scored as roots, or the pass
\* over the parents is over; i is the offset of the chunk
ChunkLoop ==
    /\ pc = "chunk"
    /\ IF i < Len(parents)
       THEN \E scorer_ok \in BOOLEAN :
            LET chunk == SubSeq(parents, i + 1, Min(i + eval_batch_size, Len(parents)))
                err == GetFitnessError(chunk, scorer_ok)
            IN /\ roots' = chunk
               /\ model_cost' = ChargedCost(model_cost, chunk, scorer_ok)
               /\ passed' = passed + Len(chunk)
               /\ IF err # "none"
                  THEN Raise(err) /\ UNCHANGED <<root_fitnesses, nodes>>
                  ELSE /\ root_fitnesses' = GetFitness(chunk)
                       /\ nodes' = [k \in DOMAIN chunk |-> <<k, chunk[k]>>]
                       /\ pc' = "rollout"
                       /\ error' = error
               /\ UNCHANGED <<i, child_idxs, children>>
       ELSE /\ pc' = "outer"
            /\ i' = 0
            /\ UNCHANGED <<model_cost, error, passed, chunk_locals>>
    /\ UNCHANGED <<config, unit, iteration, new_seqs, preds, initial_sequences,
                   parents, sequences, previous_model_cost, rho_i, calls,
                   returned>>

\* the guard letting a batch through when it would reach the budget exactly
BudgetLeftNotStrict ==
    model_cost - previous_model_cost + eval_batch_size <= model_queries_per_batch

\* the guard with the batch about to be evaluated taken off, not added
BudgetLeftBatchSubtracted ==
    model_cost - previous_model_cost - eval_batch_size < model_queries_per_batch

\* lines 279-280: one more batch of eval_batch_size mutants stays strictly
\* below the round's model_queries_per_batch
BudgetLeft ==
    model_cost - previous_model_cost + eval_batch_size < model_queries_per_batch

\* lines 278-282: the guard of one mutation step of the chunk's rollout
Rollout ==
    /\ pc = "rollout"
    /\ IF Len(nodes) > 0 /\ BudgetLeft
       THEN /\ child_idxs' = << >>
            /\ children' = << >>
            /\ pc' = "mutate"
            /\ UNCHANGED <<i, roots, root_fitnesses, nodes>>
       ELSE /\ i' = i + eval_batch_size
            /\ pc' = "chunk"
            /\ ResetChunk
    /\ UNCHANGED <<config, unit, model_cost, error, iteration, new_seqs, preds,
                   initial_sequences, parents, sequences, previous_model_cost,
                   rho_i, passed, calls, returned>>

\* lines 283-294: one draw of a mutant for the next node; a mutant seen before
\* is dropped and the draw is repeated
GenerateChild ==
    /\ pc = "mutate"
    /\ Len(children) < Len(nodes)
    /\ LET idx == nodes[Len(children) + 1][1]
           node == nodes[Len(children) + 1][2]
       IN \E child \in generate_random_mutant(node, vocab) :
            IF ~Seen(child, Range(initial_sequences), sequences)
            THEN /\ child_idxs' = Append(child_idxs, idx)
                 /\ children' = Append(children, child)
            ELSE UNCHANGED <<child_idxs, children>>
    /\ UNCHANGED <<config, unit, model_cost, pc, error, iteration, new_seqs, preds,
                   initial_sequences, parents, sequences, previous_model_cost,
                   rho_i, i, roots, root_fitnesses, nodes, passed, calls,
                   returned>>

\* lines 300-306: the children are scored, recorded, and pruned against the
\* score of their root; a 0-dimensional root_fitnesses cannot be indexed
EvaluateChildren ==
    /\ pc = "mutate"
    /\ Len(children) >= Len(nodes)
    /\ \E scorer_ok \in BOOLEAN :
        LET err == GetFitnessError(children, scorer_ok)
            fitnesses == ReshapeToList(GetFitness(children))
        IN /\ model_cost' = ChargedCost(model_cost, children, scorer_ok)
           /\ passed' = passed + Len(children)
           /\ IF err # "none"
              THEN Raise(err) /\ UNCHANGED <<sequences, nodes>>
              ELSE /\ sequences' = DictUpdate(sequences, children, fitnesses)
                   /\ IF root_fitnesses.ndim = 0
                      THEN Raise("IndexError") /\ UNCHANGED nodes
                      ELSE /\ nodes' = Survivors(child_idxs, children,
                                                 fitnesses, root_fitnesses)
                           /\ pc' = "rollout"
                           /\ error' = error
    /\ UNCHANGED <<config, unit, iteration, new_seqs, preds, initial_sequences,
                   parents, previous_model_cost, rho_i, i, roots,
                   root_fitnesses, child_idxs, children, calls, returned>>

\* lines 308-317: the round fails when nothing was discovered, else it
\* returns the sequences at sorted_order with their scores
Select ==
    /\ pc = "select"
    /\ IF Len(sequences) = 0
       THEN Raise("NoSequences") /\ UNCHANGED <<new_seqs, preds, returned>>
       ELSE LET order == sorted_order(sequences)
            IN /\ new_seqs' = [k \in DOMAIN order |-> sequences[order[k]][1]]
               /\ preds' = [k \in DOMAIN order |-> sequences[order[k]][2]]
               /\ returned' = new_seqs'
               /\ pc' = "returned"
               /\ error' = error
    /\ UNCHANGED <<config, unit, model_cost, iteration, locals, passed, calls>>

\* run, lines 340-341: max(preds) raises on an empty result
AfterRound ==
    /\ pc = "returned"
    /\ IF Len(preds) = 0
       THEN Raise("ValueError") /\ UNCHANGED iteration
       ELSE /\ iteration' = iteration + 1
            /\ pc' = "loop"
            /\ error' = error
    /\ UNCHANGED <<config, unit, model_cost, new_seqs, preds, locals, passed, calls,
                   returned>>

Next ==
    \/ RunStart
    \/ RunIteration
    \/ RunFinish
    \/ ProposeSeed
    \/ OuterLoop
    \/ Recombine
    \/ ChunkLoop
    \/ Rollout
    \/ GenerateChild
    \/ EvaluateChildren
    \/ Select
    \/ AfterRound

Spec == Init /\ [][Next]_vars

\* The program keeps running: some step is taken whenever one changes the
\* state.  A draw that is repeated because the mutant was seen changes
\* nothing, so a rejection loop with an unseen mutant in reach is left, and
\* one without is not.
FairInit ==
    /\ Init
    /\ measured_sequences # {}
    /\ sequences_batch_size = 2
    /\ model_queries_per_batch = MaxQueries
    /\ eval_batch_size = MaxEvalBatch
    /\ num_iterations = 1

FairSpec == FairInit /\ [][Next]_vars /\ WF_vars(Next)

----------------------------------------------------------------------------
\* The functions of AdaLead called on their own, on arguments drawn from
\* bounded sets: the selection of lines 255-258 on an array of scores,
\* generate_random_mutant, the crossover of one shuffled pair,
\* recombine_population, and MPRADataModule.pad_sequence.
MaxScores == 4
MaxMutantLen == 3
MaxGen == 3
PairLen == 4
MaxPadSeq == 2
MaxFlank == 3

\* scores a population can be given by a scorer
ScoreValues == {0 - 10, 0 - 9, 0 - 1, 0, 1, 5, 9, 10}

\* thresholds in hundredths
Thresholds == {0, 10, 50}

\* the alphabets generate_random_mutant is called with
Alphabets == {<<"A", "B">>, <<"A", "B", "C">>, <<"C">>}

\* sequences of length PairLen over the vocabulary
PairSeqs == [1..PairLen -> Range(vocab)]

\* MPRADataModule.pad_sequence (src/boda/data/deprecated_example2.py): strings
\* are tuples of symbols; the k-th symbol of a flank is marked with k.
Flank(side, len) == [k \in 1..len |-> <<side, k>>]

\* the sequences to pad: the first len symbols of "AC"
CoreSeq(len) == [k \in 1..len |-> IF k % 2 = 1 THEN "A" ELSE "C"]

\* s[start:] in Python: a negative start counts from the end, and a start
\* outside the string is brought back to its nearest end
SliceFrom(s, start) ==
    LET from == IF start < 0
                THEN (IF Len(s) + start < 0 THEN 0 ELSE Len(s) + start)
                ELSE (IF start > Len(s) THEN Len(s) ELSE start)
    IN SubSeq(s, from + 1, Len(s))

\* s[:stop] in Python
SliceTo(s, stop) ==
    LET to == IF stop < 0
              THEN (IF Len(s) + stop < 0 THEN 0 ELSE Len(s) + stop)
              ELSE (IF stop > Len(s) THEN Len(s) ELSE stop)
    IN SubSeq(s, 1, to)

\* line 144: the assertion on the padding available
PaddingAvailable(sequence, paddedSeqLen, upStreamSeq, downStreamSeq) ==
    paddedSeqLen - Len(sequence) <= Len(upStreamSeq) + Len(downStreamSeq)

\* lines 142-148; -paddingLen//2 is floor((-paddingLen) / 2)
pad_sequence(sequence, paddedSeqLen, upStreamSeq, downStreamSeq) ==
    LET origSeqLen == Len(sequence)
        paddingLen == paddedSeqLen - origSeqLen
        upPad == SliceFrom(upStreamSeq, ((0 - paddingLen) \div 2) + (paddingLen % 2))
        downPad == SliceTo(downStreamSeq, (paddingLen \div 2) + (paddingLen % 2))
    IN upPad \o sequence \o downPad

PadArgs ==
    {[fn |-> "pad", seqs |-> <<CoreSeq(n), Flank("up", u), Flank("down", d)>>,
      scores |-> << >>, alphabet |-> << >>, size |-> padded] :
        n \in 0..MaxPadSeq, u \in 0..MaxFlank, d \in 0..MaxFlank,
        padded \in 0..(MaxPadSeq + 2 * MaxFlank)}

ScoreArgs ==
    {[fn |-> "select", seqs |-> << >>, scores |-> sc, alphabet |-> << >>, size |-> 0] :
        sc \in UNION {Lists(ScoreValues, n) : n \in 1..MaxScores}}

MutantArgs ==
    {[fn |-> "mutant", seqs |-> <<s>>, scores |-> << >>, alphabet |-> al, size |-> 0] :
        s \in UNION {Lists({"A", "B", "C"}, n) : n \in 1..MaxMutantLen},
        al \in Alphabets}

CrossoverArgs ==
    {[fn |-> "crossover", seqs |-> g, scores |-> << >>, alphabet |-> << >>, size |-> 0] :
        g \in Lists(PairSeqs, 2)}

RecombineArgs ==
    {[fn |-> "recombine", seqs |-> gen, scores |-> << >>, alphabet |-> << >>, size |-> 0] :
        gen \in UNION ({Lists(Seqs, n) : n \in 1..MaxGen}
                       \cup {Lists({[k \in 1..PairLen |-> "A"],
                                    [k \in 1..PairLen |-> "B"]}, n) : n \in 1..2})}

UnitInit ==
    /\ args \in ScoreArgs \cup MutantArgs \cup CrossoverArgs \cup RecombineArgs
                \cup PadArgs
    /\ ret = << >>
    /\ pc = "call"
    /\ threshold \in IF args.fn = "select" THEN Thresholds ELSE {0}
    /\ mu \in IF args.fn = "mutant" THEN {0, 1} ELSE {0}
    /\ recomb_rate \in IF args.fn \in {"crossover", "recombine"}
                       THEN {0, 50, 100} ELSE {0}
    /\ measured_sequences = {}
    /\ sequences_batch_size = 1
    /\ model_queries_per_batch = 1
    /\ eval_batch_size = 1
    /\ rho \in IF args.fn = "recombine" THEN {1, 2} ELSE {1}
    /\ fitness_fn = "countA"
    /\ num_iterations = 1
    /\ model_cost = 0
    /\ error = "none"
    /\ iteration = 0
    /\ new_seqs = << >>
    /\ preds = << >>
    /\ initial_sequences = << >>
    /\ parents = << >>
    /\ sequences = << >>
    /\ previous_model_cost = 0
    /\ rho_i = 0
    /\ i = 0
    /\ roots = << >>
    /\ root_fitnesses = Squeeze(<< >>)
    /\ nodes = << >>
    /\ child_idxs = << >>
    /\ children = << >>
    /\ passed = 0
    /\ calls = 0
    /\ returned = << >>

Returns(value) ==
    /\ ret' = value
    /\ pc' = "called"
    /\ UNCHANGED <<config, args, model_cost, error, iteration, new_seqs,
                   preds, locals, passed, calls, returned>>

\* lines 252-258: top_inds for the scores get_fitness hands back
CallTopInds ==
    /\ pc = "call"
    /\ args.fn = "select"
    /\ Returns(TopInds(Squeeze(args.scores)))

\* generate_random_mutant(sequence, mu / len(sequence), alphabet), line 287
CallMutant ==
    /\ pc = "call"
    /\ args.fn = "mutant"
    /\ \E m \in generate_random_mutant(args.seqs[1], args.alphabet) : Returns(m)

\* lines 222-239 on a list of two, in the order random.shuffle left it
CallCrossover ==
    /\ pc = "call"
    /\ args.fn = "crossover"
    /\ \E sw \in SwitchPatterns(PairLen) :
          Returns(Recombinants(args.seqs, <<sw>>))

\* lines 268-269: rho passes of recombine_population, each on the list the
\* pass before it returned
CallRecombine ==
    /\ pc = "call"
    /\ args.fn = "recombine"
    /\ rho_i < rho
    /\ ret' \in recombine_population(IF rho_i = 0 THEN args.seqs ELSE ret)
    /\ rho_i' = rho_i + 1
    /\ pc' = IF rho_i + 1 < rho THEN "call" ELSE "called"
    /\ UNCHANGED <<config, args, model_cost, error, iteration, new_seqs,
                   preds, initial_sequences, parents, sequences,
                   previous_model_cost, i, chunk_locals, passed, calls,
                   returned>>

\* pad_sequence(sequence, paddedSeqLen, upStreamSeq, downStreamSeq); a failed
\* assertion raises AssertionError
CallPad ==
    /\ pc = "call"
    /\ args.fn = "pad"
    /\ IF PaddingAvailable(args.seqs[1], args.size, args.seqs[2], args.seqs[3])
       THEN /\ ret' = pad_sequence(args.seqs[1], args.size, args.seqs[2], args.seqs[3])
            /\ error' = error
       ELSE /\ ret' = ret
            /\ error' = "AssertionError"
    /\ pc' = "called"
    /\ UNCHANGED <<config, args, model_cost, iteration, new_seqs, preds,
                   locals, passed, calls, returned>>

UnitNext ==
    \/ CallTopInds
    \/ CallMutant
    \/ CallCrossover
    \/ CallRecombine
    \/ CallPad

UnitSpec == UnitInit /\ [][UnitNext]_vars

----------------------------------------------------------------------------
\* The control points inside one propose_sequences call.
InRound == pc \in {"propose", "outer", "recombine", "chunk", "rollout",
                   "mutate", "select"}

\* C1: in every reachable state model_cost equals the total size of the
\* batches passed to get_fitness so far (`passed` only ever grows and is never
\* reset), whether the scorer answered or raised.
C1_QueryAccounting == model_cost = passed

\* a scorer failure in a later round, after queries were charged
C1_Witness ==
    /\ pc = "failed"
    /\ error = "ScorerRaised"
    /\ calls = 2
    /\ Len(sequences) > 0
    /\ model_cost > previous_model_cost

\* C2: when a propose_sequences call returns, the queries since the round's
\* budget reference point do not exceed model_queries_per_batch.
C2_PerRoundCeiling ==
    pc = "returned" => model_cost - previous_model_cost <= model_queries_per_batch

\* C3: the sequences a round returns are pairwise distinct and each is a
\* sequence of length seq_len over the vocabulary.
C3_DistinctOutputs ==
    pc = "returned" =>
        /\ \A a, b \in DOMAIN new_seqs : a # b => new_seqs[a] # new_seqs[b]
        /\ \A k \in DOMAIN new_seqs : Len(new_seqs[k]) = seq_len

\* a round with recombination and mutation that returned two sequences
C3_Witness ==
    /\ pc = "returned"
    /\ Len(new_seqs) >= 2
    /\ rho >= 1
    /\ recomb_rate = 50
    /\ \E k \in DOMAIN parents : parents[k] \notin Range(initial_sequences)

C5_NonEmptyReturn ==
    /\ (pc = "returned" /\ sequences_batch_size >= 1) => Len(new_seqs) >= 1
    /\ (InRound /\ calls >= 2) => Len(initial_sequences) >= 1

\* a second round started from the single sequence the first one returned
C5_Witness ==
    /\ pc = "propose"
    /\ calls = 2
    /\ sequences_batch_size = 2
    /\ Len(initial_sequences) = 1

C7_Terminates == (pc = "propose") ~> (pc \in {"returned", "failed"})

\* C8: run ends after exactly num_iterations propose_sequences calls; the
\* first call gets measured_sequences when given and otherwise
\* sequences_batch_size sequences (none for a size below 1) of length seq_len
\* over the vocabulary, and every later call gets the list the call before it
\* returned.
C8_RunRounds ==
    /\ pc = "done" => calls = num_iterations /\ iteration = num_iterations
    /\ calls <= num_iterations
    /\ (InRound /\ calls = 1) =>
          IF measured_sequences # {}
          THEN initial_sequences \in measured_sequences
          ELSE /\ Len(initial_sequences) =
                      (IF sequences_batch_size > 0 THEN sequences_batch_size ELSE 0)
               /\ \A k \in DOMAIN initial_sequences :
                      initial_sequences[k] \in Seqs
    /\ (InRound /\ calls >= 2) => initial_sequences = returned

\* a run of two rounds that completed from random sequences
C8_Witness ==
    /\ pc = "done"
    /\ num_iterations = 2
    /\ calls = 2
    /\ measured_sequences = {}

\* C9: with the 'A'-count scorer, threshold 0 and the largest budget, on a
\* population of at least two sequences, the parents of the first round are
\* input sequences of maximal 'A' count, and the round returns no sequence
\* with fewer 'A' than the best input sequence.
C9_NoWorseOutput ==
    LET best == Max({Count(initial_sequences[k], "A") : k \in DOMAIN initial_sequences})
    IN (/\ fitness_fn = "countA"
        /\ threshold = 0
        /\ model_queries_per_batch = MaxQueries
        /\ calls = 1
        /\ Len(initial_sequences) >= 2) =>
        /\ (pc = "outer" /\ model_cost = previous_model_cost) =>
              \A k \in DOMAIN parents :
                  /\ parents[k] \in Range(initial_sequences)
                  /\ Count(parents[k], "A") = best
        /\ pc = "returned" =>
              \A k \in DOMAIN new_seqs : Count(new_seqs[k], "A") >= best

\* C10: with sequences_batch_size <= 0 the call fails before the body of the
\* outer loop of a round is ever entered, and no round returns.
C10_ConfigurationError ==
    sequences_batch_size <= 0 =>
        pc \notin {"recombine", "chunk", "rollout", "mutate", "returned"}

\* C11: the indices selected from an array of scores are exactly those of the
\* entries with score >= top_fitness * (1 - sign(top_fitness) * threshold),
\* top_fitness being the maximum, in ascending order; scores [10, 9, 5, 1]
\* with threshold 0.1 select the first two entries, and an entry of maximal
\* score is always selected.
C11_ParentSelection ==
    (pc = "called" /\ args.fn = "select") =>
        LET fs == args.scores
            top_fitness == Max(Range(fs))
        IN /\ \A k \in 1..Len(fs) :
                 (k \in Range(ret)) <=>
                     fs[k] * 100 >= top_fitness * (100 - Sign(top_fitness) * threshold)
           /\ \A a, b \in DOMAIN ret : a < b => ret[a] < ret[b]
           /\ (fs = <<10, 9, 5, 1>> /\ threshold = 10) => ret = <<1, 2>>
           /\ \E k \in Range(ret) : fs[k] = top_fitness


\* C12: generate_random_mutant called with mu = 0 returns the sequence it was
\* given, whatever the sequence and the alphabet.
C12_NoMutationAtZero ==
    (pc = "called" /\ args.fn = "mutant" /\ mu = 0) => ret = args.seqs[1]

\* a sequence with no symbol of the alphabet, returned as it was
C12_Witness ==
    /\ pc = "called"
    /\ args.fn = "mutant"
    /\ mu = 0
    /\ args.seqs[1] = <<"A", "B", "A">>
    /\ args.alphabet = <<"C">>
    /\ ret = <<"A", "B", "A">>


\* C13 (as stated): with recomb_rate = 1.0, one pass of recombine_population on
\* the two parents "AAAA" and "BBBB" returns the two fully-swapped children
\* "BBBB" and "AAAA".
C13_FullySwapped ==
    LET allA == [k \in 1..PairLen |-> "A"]
        allB == [k \in 1..PairLen |-> "B"]
    IN (/\ pc = "called"
        /\ args.fn = "recombine"
        /\ rho = 1
        /\ recomb_rate = 100
        /\ args.seqs = <<allA, allB>>) =>
            /\ Len(ret) = 2
            /\ Range(ret) = {allA, allB}

\* C13 (amended): with recomb_rate = 1.0 the switch flips at every position,
\* so the children of a pair alternate between the two parents position by
\* position, the first child starting with the first parent of the shuffled
\* pair; one pass on the parents "AAAA" and "BBBB" gives "ABAB" and "BABA".
C13_Alternating ==
    LET allA == [k \in 1..PairLen |-> "A"]
        allB == [k \in 1..PairLen |-> "B"]
        Alt(a, b) == [ind \in 1..PairLen |-> IF ind % 2 = 1 THEN a[ind] ELSE b[ind]]
    IN /\ (pc = "called" /\ args.fn = "crossover" /\ recomb_rate = 100) =>
              ret = <<Alt(args.seqs[1], args.seqs[2]), Alt(args.seqs[2], args.seqs[1])>>
       /\ (/\ pc = "called"
           /\ args.fn = "recombine"
           /\ rho = 1
           /\ recomb_rate = 100
           /\ args.seqs = <<allA, allB>>) =>
              /\ Len(ret) = 2
              /\ Range(ret) = {Alt(allA, allB), Alt(allB, allA)}

\* recombine_population returned "ABAB" and "BABA" for "AAAA" and "BBBB"
C13_Witness ==
    /\ pc = "called"
    /\ args.fn = "recombine"
    /\ rho = 1
    /\ recomb_rate = 100
    /\ args.seqs = <<[k \in 1..PairLen |-> "A"], [k \in 1..PairLen |-> "B"]>>
    /\ ret[1] = [k \in 1..PairLen |-> IF k % 2 = 1 THEN "A" ELSE "B"]
    /\ ret[2] = [k \in 1..PairLen |-> IF k % 2 = 1 THEN "B" ELSE "A"]


\* C14: with recomb_rate = 0 the two children of a pair are the two parents,
\* the first child being the second parent of the shuffled pair and the second
\* child the first parent; and a list of one sequence comes back unchanged
\* from recombine_population for every recomb_rate and number of passes rho.
C14_NoMixingAtZero ==
    /\ (pc = "called" /\ args.fn = "crossover" /\ recomb_rate = 0) =>
          ret = <<args.seqs[2], args.seqs[1]>>
    /\ (pc = "called" /\ args.fn = "recombine" /\ recomb_rate = 0) =>
          \A k \in DOMAIN ret : ret[k] \in Range(args.seqs)
    /\ (pc = "called" /\ args.fn = "recombine" /\ Len(args.seqs) = 1) =>
          ret = args.seqs

\* two different parents that came back in swapped roles
C14_Witness ==
    /\ pc = "called"
    /\ args.fn = "crossover"
    /\ recomb_rate = 0
    /\ args.seqs[1] # args.seqs[2]
    /\ ret = <<args.seqs[2], args.seqs[1]>>


C16_PopulationSizeKept ==
    pc \in {"outer", "recombine", "chunk", "rollout", "mutate", "select"} =>
        Len(parents) = sequences_batch_size


\* C17: every mutant of a batch being drawn is neither in the round's seed
\* population nor among the sequences discovered so far in the round, no two
\* mutants of the batch are the same sequence (so that none is evaluated
\* twice), and the sequences a round returns are not in its seed population.
C17_DuplicateRejection ==
    /\ pc = "mutate" =>
          /\ \A k \in DOMAIN children :
                /\ children[k] \notin Range(initial_sequences)
                /\ \A j \in DOMAIN sequences : sequences[j][1] # children[k]
          /\ \A a, b \in DOMAIN children : a # b => children[a] # children[b]
    /\ pc = "returned" => Range(new_seqs) \cap Range(initial_sequences) = {}


\* C18: right after the parent selection of a round on a population of two or
\* more sequences, with sequences_batch_size >= 1, the parent list has
\* sequences_batch_size entries, parent i
\* (from 0) is selected[i mod |selected|], and every selected sequence is among
\* the parents; selected are the sequences of the population whose score
\* reaches the cutoff, in population order.
C18_WrapAroundParents ==
    (/\ pc = "outer"
     /\ model_cost = previous_model_cost
     /\ sequences_batch_size >= 1
     /\ Len(initial_sequences) >= 2) =>
        LET score(k) == Fitness(fitness_fn, initial_sequences[k])
            top_fitness == Max({score(k) : k \in DOMAIN initial_sequences})
            Reaches(k) == score(k) * 100 >=
                              top_fitness * (100 - Sign(top_fitness) * threshold)
            inds == SelectSeq([k \in DOMAIN initial_sequences |-> k], Reaches)
            selected == [k \in DOMAIN inds |-> initial_sequences[inds[k]]]
        IN /\ Len(parents) = sequences_batch_size
           /\ \A k \in DOMAIN parents :
                 parents[k] = selected[((k - 1) % Len(selected)) + 1]
           /\ \A k \in DOMAIN selected : selected[k] \in Range(parents)


\* C19 (as stated): a round that discovered fewer sequences than
\* sequences_batch_size returns all of them but one, the one left out having
\* the lowest score.
C19_LowestExcluded ==
    (pc = "returned" /\ Len(sequences) < sequences_batch_size) =>
        /\ Len(new_seqs) = Len(sequences) - 1
        /\ \E j \in DOMAIN sequences :
              /\ sequences[j][1] \notin Range(new_seqs)
              /\ \A k \in DOMAIN sequences : sequences[j][2] <= sequences[k][2]

\* C19 (amended): a round that discovered fewer sequences than
\* sequences_batch_size returns every one of them, once each, in descending
\* order of score, each with its score.
C19_AllReturnedWhenFew ==
    (pc = "returned" /\ Len(sequences) < sequences_batch_size) =>
        /\ Len(new_seqs) = Len(sequences)
        /\ Len(preds) = Len(sequences)
        /\ \A j \in DOMAIN sequences :
              \E k \in DOMAIN new_seqs : <<new_seqs[k], preds[k]>> = sequences[j]
        /\ \A a, b \in DOMAIN preds : a < b => preds[a] >= preds[b]

\* two sequences of different scores discovered with three asked for, both
\* returned
C19_Witness ==
    /\ pc = "returned"
    /\ sequences_batch_size = 3
    /\ Len(sequences) = 2
    /\ Len(new_seqs) = 2
    /\ preds[1] > preds[2]


C21_BudgetGuard ==
    LET q == model_cost - previous_model_cost
        roots_in_last_pass == IF model_queries_per_batch >= 1 THEN Len(parents) ELSE 0
    IN /\ pc = "mutate" => q + eval_batch_size < model_queries_per_batch
       /\ (pc = "rollout" /\ Len(children) > 0) => q < model_queries_per_batch
       /\ (pc = "failed" /\ error = "IndexError") => q < model_queries_per_batch
       /\ pc = "select" =>
             /\ model_queries_per_batch <= q
             /\ q < model_queries_per_batch + roots_in_last_pass

\* C21 (amended): the same guard, and when the outer loop is left after at
\* least one pass, model_queries_per_batch <= q < model_queries_per_batch +
\* the number of parents scored as roots in the last pass; with
\* model_queries_per_batch = 0 no pass is made and q = 0.
C21_BudgetGuardAfterPass ==
    LET q == model_cost - previous_model_cost
    IN /\ pc = "mutate" => q + eval_batch_size < model_queries_per_batch
       /\ (pc = "rollout" /\ Len(children) > 0) => q < model_queries_per_batch
       /\ (pc = "failed" /\ error = "IndexError") => q < model_queries_per_batch
       /\ (pc = "select" /\ model_queries_per_batch >= 1) =>
             /\ model_queries_per_batch <= q
             /\ q < model_queries_per_batch + Len(parents)
       /\ (pc = "select" /\ model_queries_per_batch = 0) =>
             q = 0 /\ Len(sequences) = 0

\* the outer loop left after mutants were found, with as many queries as the
\* bound allows: one fewer than the budget plus the roots of the last pass
C21_Witness ==
    /\ pc = "select"
    /\ Len(sequences) > 0
    /\ Len(parents) >= 2
    /\ model_queries_per_batch >= 1
    /\ model_cost - previous_model_cost =
           model_queries_per_batch + Len(parents) - 1


\* C22: for every pair of parents of equal length and every recomb_rate, the
\* crossover returns two children of the parents' length, and at each position
\* the two children hold the two symbols the parents hold at that position,
\* one each.
C22_SymbolsConserved ==
    (pc = "called" /\ args.fn = "crossover") =>
        LET a == args.seqs[1]
            b == args.seqs[2]
        IN /\ Len(ret) = 2
           /\ Len(ret[1]) = Len(a)
           /\ Len(ret[2]) = Len(a)
           /\ \A ind \in 1..Len(a) :
                 \/ ret[1][ind] = a[ind] /\ ret[2][ind] = b[ind]
                 \/ ret[1][ind] = b[ind] /\ ret[2][ind] = a[ind]

\* children mixed from "AAAA" and "BBBB" that are neither parent
C22_Witness ==
    /\ pc = "called"
    /\ args.fn = "crossover"
    /\ recomb_rate = 50
    /\ args.seqs[1] = [k \in 1..PairLen |-> "A"]
    /\ args.seqs[2] = [k \in 1..PairLen |-> "B"]
    /\ ret[1] \notin Range(args.seqs)
    /\ ret[1][1] # ret[1][2]
    /\ ret[1][PairLen] = "B"


\* C23: for every paddingLen = paddedSeqLen - len(sequence) >= 0 that passes
\* the assertion, pad_sequence returns paddedSeqLen symbols: the last u symbols
\* of the upstream flank, the sequence, and the first d symbols of the
\* downstream flank, with u + d = paddingLen and u, d differing by at most one.
C23_PaddedLength ==
    (/\ pc = "called"
     /\ args.fn = "pad"
     /\ error = "none"
     /\ args.size - Len(args.seqs[1]) >= 0) =>
        LET sequence == args.seqs[1]
            up == args.seqs[2]
            down == args.seqs[3]
            paddingLen == args.size - Len(sequence)
        IN /\ Len(ret) = args.size
           /\ \E u, d \in 0..paddingLen :
                 /\ u + d = paddingLen
                 /\ u - d \in {0 - 1, 0, 1}
                 /\ u <= Len(up)
                 /\ d <= Len(down)
                 /\ ret = SubSeq(up, Len(up) - u + 1, Len(up)) \o sequence
                              \o SubSeq(down, 1, d)


============================================================================
